---- MODULE Spec2Model ----
(***************************************************************************)
(* Zooshi: the SimpleMovement component (src/src/components/               *)
(* simple_movement.cpp), the two-pass WorldRenderer                        *)
(* (src/src/world_renderer.cpp), the Services component                    *)
(* (src/src/components/services.h), the entity registry and the rails      *)
(* (RailDef of rail.fbs), modelled as state machines.                      *)
(*                                                                         *)
(* Lengths and velocities are fixed-point numbers in thousandths of a      *)
(* world unit, so that the division by 1000.0f of UpdateAllEntities is an  *)
(* explicit operation of the model.  WorldTime is in milliseconds.         *)
(***************************************************************************)
EXTENDS Integers, Sequences, FiniteSets, TLC

\* ------------------------------------------------------------------------
\* Bounds
\* ------------------------------------------------------------------------
NumEntities == 2
MaxUpdates == 1
MaxRenderCalls == 2
MaxRailDistance == 15

Entities == 1..NumEntities

\* ------------------------------------------------------------------------
\* Values
\* ------------------------------------------------------------------------
Vec3(x, y, z) == [x |-> x, y |-> y, z |-> z]

kZeros3f == Vec3(0, 0, 0)

\* velocities a definition blob may carry (thousandths of a unit per second)
Velocities == {Vec3(1000, 0, 0), Vec3(-1000, 2000, 3000)}

\* frame times handed to UpdateAllEntities (milliseconds)
DeltaTimes == {0, 1000}

\* nullptr of a data lookup / of a RawDataUniquePtr
NullData == [null |-> TRUE]

\* no ExportRawData call was made yet
NoExport == [none |-> TRUE]

\* what a build can do when the code dereferences a null or invalid pointer
UBOutcomes == {"fault", "continue"}

VecAdd(a, b) == Vec3(a.x + b.x, a.y + b.y, a.z + b.z)

VecScale(a, s) == Vec3(a.x * s, a.y * s, a.z * s)

\* signed division truncating toward zero, as the C++ operator does
TruncDiv(n, d) == IF n >= 0 THEN n \div d ELSE -((-n) \div d)

VecDiv(a, d) == Vec3(TruncDiv(a.x, d), TruncDiv(a.y, d), TruncDiv(a.z, d))

\* ------------------------------------------------------------------------
\* Definition blobs (flatbuffers tables)
\* ------------------------------------------------------------------------
\* a SimpleMovementDef table: one fplbase.Vec3 field
SimpleMovementDef(v) == [tag |-> "SimpleMovementDef", velocity |-> v]

\* a table of another component kind handed to SimpleMovement by mistake
ForeignDef == [tag |-> "RailDenizenDef"]

ValidBlobs == {SimpleMovementDef(v) : v \in Velocities}

VARIABLES
    transform,        \* TransformComponent: entity -> position | NullData
    component_data_,  \* SimpleMovementComponent: records in storage order
    export_buf,       \* result of the last ExportRawData
    export_src,       \* SimpleMovementData the last export serialized
    ticks,            \* UpdateAllEntities calls so far
    fault,            \* "none", or why the process died
    \* World
    rendering_option_enabled_,  \* ShaderDefines -> BOOLEAN
    rendering_dirty_,           \* the options changed since the last refresh
    light_entities,             \* LightComponent: entities in storage order
    \* AssetManager
    loaded_shaders,             \* names FindShader can resolve
    global_defines,             \* [add, omit] of ResetGlobalShaderDefines
    uniforms,                   \* material shader -> uniform groups written
    \* WorldRenderer
    pc,                         \* the step of the renderer last executed
    shader_ptr,                 \* depth_shader_, depth_skinned_shader_, ...
    light_position,             \* position of light_camera_
    shadow_map,                 \* content of shadow_map_
    render_target,              \* the target draws go to
    bound_texture,              \* content bound to unit kShadowMapTextureID
    \* bookkeeping of the properties
    frame_state,                \* Idle, ShadowPass or MainPass
    call_refreshes,             \* refreshes done by the current render call
    pending_toggle,             \* an option was toggled, RenderWorld not yet
                                \* called since
    refreshes_total,            \* refreshes done by render calls so far
    dirty_calls_total,          \* render calls that began with the flag set
    \* ServicesComponent
    services_data,              \* entities holding a ServicesData record
    services_called,            \* AddFromRawData was called and returned
    raft_entity_,               \* EntityRef, 0 when never set
    player_entity_,             \* EntityRef, 0 when never set
    \* entity registry
    destroyed,                  \* handles that were destroyed
    \* rail manager
    rail,                       \* the RailDef a denizen is bound to
    rail_distance,              \* the denizen's distance along the rail
    rail_position               \* the position last evaluated

\* variables of the SimpleMovement component alone
mvars == <<component_data_, export_buf, export_src, ticks>>

\* variables of the world as the renderer sees it, and of the renderer
rvars == <<rendering_option_enabled_, rendering_dirty_, light_entities,
           loaded_shaders, global_defines, uniforms, pc, shader_ptr,
           light_position, shadow_map, render_target, bound_texture,
           frame_state, call_refreshes, pending_toggle, refreshes_total,
           dirty_calls_total>>

\* the counters over the render calls
cvars == <<refreshes_total, dirty_calls_total>>

\* variables of the Services component, the entity registry and the rails
wvars == <<services_data, services_called, raft_entity_, player_entity_,
           destroyed, rail, rail_distance, rail_position>>

vars == <<transform, fault, mvars, rvars, wvars>>

\* ------------------------------------------------------------------------
\* Component storage
\* ------------------------------------------------------------------------
SMEntities(cd) == {cd[i].entity : i \in 1..Len(cd)}

IndexOf(cd, entity) == CHOOSE i \in 1..Len(cd) : cd[i].entity = entity

\* Data<SimpleMovementData>(entity) / GetComponentData(entity)
GetComponentData(cd, entity) ==
    IF entity \in SMEntities(cd)
    THEN [velocity |-> cd[IndexOf(cd, entity)].velocity]
    ELSE NullData

\* Data<TransformData>(entity)
TransformDataOf(tr, entity) == tr[entity]

\* EntityManager::AddEntityToComponent<TransformComponent>: idempotent attach
AddEntityToTransform(tr, entity) ==
    IF tr[entity] = NullData THEN [tr EXCEPT ![entity] = kZeros3f] ELSE tr

\* InitEntity without the attach of the TransformComponent
InitEntity_NoAttach(tr, entity) == tr

\* SimpleMovementComponent::InitEntity
InitEntity(tr, entity) == AddEntityToTransform(tr, entity)

\* Component<T>::AddEntity: existing record, or a new one at the end of the
\* storage followed by InitEntity.  uninit is the content of the fresh,
\* not yet assigned record.
AddEntity(cd, tr, entity, uninit) ==
    IF entity \in SMEntities(cd)
    THEN [cd |-> cd, tr |-> tr]
    ELSE [cd |-> Append(cd, [entity |-> entity, velocity |-> uninit]),
          tr |-> InitEntity(tr, entity)]

\* fplbase LoadVec3: flatbuffers Vec3 struct -> mathfu::vec3
LoadVec3(v) == Vec3(v.x, v.y, v.z)

\* the export with the y and z components exchanged
ExportVelocity_Swapped(data) ==
    SimpleMovementDef(Vec3(data.velocity.x, data.velocity.z, data.velocity.y))

\* fplbase::Vec3 velocity(data->velocity.x, .y, .z) + CreateSimpleMovementDef
ExportVelocity(data) ==
    SimpleMovementDef(Vec3(data.velocity.x, data.velocity.y, data.velocity.z))

\* the export without the check for a missing record
ExportRawDataResult_Unchecked(cd, entity) ==
    LET data == GetComponentData(cd, entity)
    IN IF data = NullData
       THEN SimpleMovementDef(kZeros3f)
       ELSE ExportVelocity(data)

\* what ExportRawData(entity) returns on storage cd
ExportRawDataResult(cd, entity) ==
    LET data == GetComponentData(cd, entity)
    IN IF data = NullData THEN NullData ELSE ExportVelocity(data)

\* ------------------------------------------------------------------------
\* SimpleMovementComponent operations
\* ------------------------------------------------------------------------
\* raw_data is static_cast to SimpleMovementDef without a check: a table of
\* another kind is read as if it were one (undefined: a garbage velocity, or
\* a fault on a missing field).
AddFromRawData(entity, raw_data, ub, garbage) ==
    /\ fault = "none"
    /\ LET added == AddEntity(component_data_, transform, entity, garbage)
           i == IndexOf(added.cd, entity)
           valid == raw_data.tag = "SimpleMovementDef"
       IN /\ transform' = added.tr
          /\ IF valid
             THEN /\ component_data_' =
                        [added.cd EXCEPT ![i].velocity =
                                             LoadVec3(raw_data.velocity)]
                  /\ fault' = "none"
             ELSE IF ub = "fault"
                  THEN /\ component_data_' = added.cd
                       /\ fault' = "bad_definition"
                  ELSE /\ component_data_' =
                             [added.cd EXCEPT ![i].velocity = garbage]
                       /\ fault' = "none"
    /\ UNCHANGED <<export_buf, export_src, ticks, rvars, wvars>>

RECURSIVE UpdateFrom(_, _, _, _, _)
\* the loop of UpdateAllEntities from storage index i on
UpdateFrom(cd, i, tr, delta_time, ub) ==
    IF i > Len(cd)
    THEN [transform |-> tr, fault |-> "none"]
    ELSE LET entity == cd[i].entity
             transform_data == TransformDataOf(tr, entity)
             simple_movement_data == GetComponentData(cd, entity)
         IN IF transform_data = NullData
            THEN IF ub = "fault"
                 THEN [transform |-> tr, fault |-> "null_transform"]
                 ELSE UpdateFrom(cd, i + 1, tr, delta_time, ub)
            ELSE UpdateFrom(cd, i + 1,
                     [tr EXCEPT ![entity] =
                         VecAdd(transform_data,
                                VecDiv(VecScale(simple_movement_data.velocity,
                                                delta_time), 1000))],
                     delta_time, ub)

\* the update that adds the whole velocity whatever time has passed
UpdateAllEntities_IgnoresDeltaTime(delta_time, ub) ==
    /\ fault = "none"
    /\ ticks < MaxUpdates
    /\ LET r == UpdateFrom(component_data_, 1, transform, 1000, ub)
       IN /\ transform' = r.transform
          /\ fault' = r.fault
    /\ ticks' = ticks + 1
    /\ UNCHANGED <<component_data_, export_buf, export_src, rvars, wvars>>

\* SimpleMovementComponent::UpdateAllEntities(delta_time)
UpdateAllEntities(delta_time, ub) ==
    /\ fault = "none"
    /\ ticks < MaxUpdates
    /\ LET r == UpdateFrom(component_data_, 1, transform, delta_time, ub)
       IN /\ transform' = r.transform
          /\ fault' = r.fault
    /\ ticks' = ticks + 1
    /\ UNCHANGED <<component_data_, export_buf, export_src, rvars, wvars>>

ExportRawData(entity) ==
    /\ fault = "none"
    /\ export_buf' = ExportRawDataResult(component_data_, entity)
    /\ export_src' = GetComponentData(component_data_, entity)
    /\ UNCHANGED <<transform, component_data_, ticks, fault, rvars, wvars>>

\* EntityManager::RemoveComponent<TransformComponent>(entity)
RemoveTransform(entity) ==
    /\ fault = "none"
    /\ transform[entity] # NullData
    /\ transform' = [transform EXCEPT ![entity] = NullData]
    /\ UNCHANGED <<component_data_, export_buf, export_src, ticks, fault,
                   rvars, wvars>>

\* ------------------------------------------------------------------------
\* ServicesComponent (src/src/components/services.h)
\* ------------------------------------------------------------------------
\* AddFromRawData that attaches a ServicesData record like other components
ServicesAddFromRawData_Attaches(entity, ndebug) ==
    /\ fault = "none"
    /\ services_data' = services_data \cup {entity}
    /\ services_called' = TRUE
    /\ UNCHANGED <<transform, fault, mvars, rvars, raft_entity_,
                   player_entity_, destroyed, rail, rail_distance,
                   rail_position>>

\* ServicesComponent::AddFromRawData: assert(false) and nothing else.  In a
\* translation unit compiled with NDEBUG the assert expands to nothing and
\* the call returns.
ServicesAddFromRawData(entity, ndebug) ==
    /\ fault = "none"
    /\ IF ndebug
       THEN /\ services_called' = TRUE
            /\ fault' = fault
       ELSE /\ services_called' = services_called
            /\ fault' = "assert_false"
    /\ UNCHANGED <<transform, mvars, rvars, services_data, raft_entity_,
                   player_entity_, destroyed, rail, rail_distance,
                   rail_position>>

\* ServicesComponent::set_raft_entity
set_raft_entity(entity) ==
    /\ fault = "none"
    /\ raft_entity_' = entity
    /\ UNCHANGED <<transform, fault, mvars, rvars, services_data,
                   services_called, player_entity_, destroyed, rail,
                   rail_distance, rail_position>>

\* ServicesComponent::set_player_entity
set_player_entity(entity) ==
    /\ fault = "none"
    /\ player_entity_' = entity
    /\ UNCHANGED <<transform, fault, mvars, rvars, services_data,
                   services_called, raft_entity_, destroyed, rail,
                   rail_distance, rail_position>>

\* ------------------------------------------------------------------------
\* Entity registry
\* ------------------------------------------------------------------------
\* a component storage without the records of entity
WithoutEntity(cd, entity) ==
    LET Other(record) == record.entity # entity
    IN SelectSeq(cd, Other)

\* DestroyEntity(h): a no-op on a handle that is already invalid; otherwise
\* every component drops its data for h, then h is invalidated.  Handles
\* held elsewhere (raft_entity_, player_entity_) are not touched.
DestroyEntity(entity) ==
    /\ fault = "none"
    /\ pc \in {"Constructed", "Idle"}
    /\ IF entity \in destroyed
       THEN UNCHANGED <<transform, component_data_, light_entities,
                        services_data, destroyed>>
       ELSE /\ transform' = [transform EXCEPT ![entity] = NullData]
            /\ component_data_' = WithoutEntity(component_data_, entity)
            /\ light_entities' =
                   LET Other(light) == light # entity
                   IN SelectSeq(light_entities, Other)
            /\ services_data' = services_data \ {entity}
            /\ destroyed' = destroyed \cup {entity}
    /\ UNCHANGED <<fault, export_buf, export_src, ticks, cvars,
                   rendering_option_enabled_, rendering_dirty_,
                   loaded_shaders, global_defines, uniforms, pc, shader_ptr,
                   light_position, shadow_map, render_target, bound_texture,
                   frame_state, call_refreshes, pending_toggle,
                   services_called, raft_entity_, player_entity_, rail,
                   rail_distance, rail_position>>

\* ------------------------------------------------------------------------
\* Rails (RailDef of rail.fbs, evaluated as the rail manager does)
\* ------------------------------------------------------------------------
\* a RailDef table; total_time in milliseconds, lengths in thousandths
RailDef(positions, wraps) ==
    [positions |-> positions, total_time |-> 10000, reliable_distance |-> 0,
     wraps |-> wraps]

\* the waypoint lists of the rails that are loaded; consecutive waypoints
\* differ along one axis only, so that segment lengths are whole numbers
RailPositions ==
    {<<Vec3(0, 0, 0), Vec3(10000, 0, 0)>>,
     <<Vec3(3000, 0, 2000)>>,
     <<Vec3(0, 0, 0), Vec3(10000, 0, 0), Vec3(10000, 5000, 0)>>}

RailDefs == {RailDef(positions, wraps) :
                positions \in RailPositions, wraps \in BOOLEAN}

\* speeds of a denizen along its rail (thousandths of a unit per second)
RailSpeeds == {-1000, 1000}

Abs(n) == IF n < 0 THEN -n ELSE n

VecSub(a, b) == Vec3(a.x - b.x, a.y - b.y, a.z - b.z)

\* length of an axis-aligned segment
SegmentLength(a, b) == Abs(b.x - a.x) + Abs(b.y - a.y) + Abs(b.z - a.z)

RECURSIVE LengthFrom(_, _)
LengthFrom(positions, i) ==
    IF i >= Len(positions) THEN 0
    ELSE SegmentLength(positions[i], positions[i + 1])
             + LengthFrom(positions, i + 1)

\* total path length of a rail
TotalLength(positions) == LengthFrom(positions, 1)

\* a remainder; taking it by zero is an error
Modulo(n, d) ==
    IF d = 0 THEN [ok |-> FALSE, value |-> 0]
    ELSE [ok |-> TRUE, value |-> n % d]

\* the wrap without the case of the zero-length rail
WrapDistance_Unguarded(distance, total_length) ==
    Modulo(distance, total_length)

\* wraps = true: the distance modulo the total path length; a rail of
\* length zero has only distance 0
WrapDistance(distance, total_length) ==
    IF total_length = 0 THEN [ok |-> TRUE, value |-> 0]
    ELSE Modulo(distance, total_length)

\* the distance passed on as it is
ClampDistance_None(distance, total_length) ==
    [ok |-> TRUE, value |-> distance]

\* wraps = false: the distance clamped to [0, total_length]
ClampDistance(distance, total_length) ==
    [ok |-> TRUE,
     value |-> IF distance < 0 THEN 0
               ELSE IF distance > total_length THEN total_length
               ELSE distance]

\* linear interpolation between two waypoints by fractional progress
Lerp(a, b, progress, length) ==
    VecAdd(a, VecDiv(VecScale(VecSub(b, a), progress), length))

RECURSIVE PositionFrom(_, _, _)
\* linear scan for the segment that contains distance, from waypoint i on;
\* a segment of length zero is passed over, never divided by
PositionFrom(positions, i, distance) ==
    IF i >= Len(positions)
    THEN positions[Len(positions)]
    ELSE LET length == SegmentLength(positions[i], positions[i + 1])
         IN IF length > 0 /\ distance <= length
            THEN Lerp(positions[i], positions[i + 1], distance, length)
            ELSE PositionFrom(positions, i + 1, distance - length)

\* position of a rail at a distance
RailPositionAt(def, distance) ==
    LET total_length == TotalLength(def.positions)
        along == IF def.wraps
                 THEN WrapDistance(distance, total_length)
                 ELSE ClampDistance(distance, total_length)
    IN IF along.ok
       THEN [position |-> PositionFrom(def.positions, 1, along.value),
             fault |-> "none"]
       ELSE [position |-> NullData, fault |-> "division_by_zero"]

\* per-tick update of a rail denizen: distance += speed * delta_time, then
\* the position is derived from the rail
UpdateRailDenizen(speed, delta_time) ==
    /\ fault = "none"
    /\ rail # NullData
    /\ LET distance == rail_distance + TruncDiv(speed * delta_time, 1000)
           at == RailPositionAt(rail, distance)
       IN /\ Abs(distance) <= MaxRailDistance * 1000
          /\ rail_distance' = distance
          /\ rail_position' = at.position
          /\ fault' = at.fault
    /\ UNCHANGED <<transform, mvars, rvars, services_data, services_called,
                   raft_entity_, player_entity_, destroyed, rail>>

\* ------------------------------------------------------------------------
\* World and AssetManager as the renderer uses them
\* ------------------------------------------------------------------------
kNumShaderDefines == 4

\* enum ShaderDefines, the index into kDefinesText
ShaderDefines == 0..(kNumShaderDefines - 1)

kPhongShading == 0

kShadowEffect == 2

kDefinesText ==
    <<"PHONG_SHADING", "SPECULAR_EFFECT", "SHADOW_EFFECT", "NORMALS">>

\* the options the host toggles at run time
ToggleInputs == {kPhongShading, kShadowEffect}

\* World::RenderingOptionEnabled
RenderingOptionEnabled(options, s) == options[s]

\* the shaders the renderer looks up by name, per member that holds them
ShaderNameOf ==
    [depth_shader_ |-> "shaders/render_depth",
     depth_skinned_shader_ |-> "shaders/render_depth_skinned",
     textured_shader_ |-> "shaders/textured"]

ShaderMembers == DOMAIN ShaderNameOf

ShaderNames == {ShaderNameOf[m] : m \in ShaderMembers}

\* the material shaders of the loaded meshes and the defines they declare
MaterialShaders == {"lit", "water", "plain"}

ShaderDefinesOf(shader) ==
    CASE shader = "lit" -> {"PHONG_SHADING", "SHADOW_EFFECT", "FOG_EFFECT"}
      [] shader = "water" -> {"WATER", "FOG_EFFECT"}
      [] OTHER -> {}

\* AssetManager::ForEachShaderWithDefine: the shaders the callback visits
ForEachShaderWithDefine(define) ==
    {shader \in MaterialShaders : define \in ShaderDefinesOf(shader)}

\* AssetManager::FindShader: nullptr for a name it does not hold
FindShader(loaded, name) == IF name \in loaded THEN "valid" ELSE "null"

\* a light position read through an invalid pointer
Garbage == [garbage |-> TRUE]

\* the renderer and the world right after construction
Constructed ==
    /\ pc = "Constructed"
    /\ global_defines = [add |-> {}, omit |-> {}]
    /\ uniforms = [shader \in MaterialShaders |-> {}]
    /\ shader_ptr = [m \in ShaderMembers |-> "uninit"]
    /\ light_position = kZeros3f
    /\ shadow_map = "none"
    /\ render_target = "screen"
    /\ bound_texture = "none"
    /\ frame_state = "Idle"
    /\ call_refreshes = 0
    /\ pending_toggle = FALSE
    /\ refreshes_total = 0
    /\ dirty_calls_total = 0

\* ------------------------------------------------------------------------
\* WorldRenderer
\* ------------------------------------------------------------------------
\* a use of the shaders held by members through their pointers: a pointer
\* that is null or dangling is dereferenced
ShaderUse(ptr, members, ub) ==
    IF ub = "fault" /\ \E m \in members : ptr[m] # "valid"
    THEN IF \E m \in members : ptr[m] = "null" THEN "null_shader"
         ELSE "bad_shader"
    ELSE "none"

\* the defines of the rendering options that are enabled
DefinesToOmit_Enabled(options) ==
    {kDefinesText[s + 1] :
        s \in {t \in ShaderDefines : RenderingOptionEnabled(options, t)}}

\* the defines of the rendering options that are disabled
DefinesToOmit(options) ==
    {kDefinesText[s + 1] :
        s \in {t \in ShaderDefines : ~RenderingOptionEnabled(options, t)}}

\* the refresh without the final World::ResetRenderingDirty
RefreshGlobalShaderDefines_KeepsDirty(options, loaded, dirty, ub) ==
    LET found == [m \in ShaderMembers |-> FindShader(loaded, ShaderNameOf[m])]
    IN [global_defines |-> [add |-> {}, omit |-> DefinesToOmit(options)],
        shader_ptr |-> found,
        fault |-> ShaderUse(found, ShaderMembers, ub),
        rendering_dirty_ |-> dirty,
        refreshes |-> 1]

\* WorldRenderer::RefreshGlobalShaderDefines.  ReloadIfDirty is called on the
\* result of FindShader unchecked; World::ResetRenderingDirty comes last.
RefreshGlobalShaderDefines(options, loaded, dirty, ub) ==
    LET defines_to_add == {}
        defines_to_omit == DefinesToOmit(options)
        found == [m \in ShaderMembers |-> FindShader(loaded, ShaderNameOf[m])]
        reload == ShaderUse(found, ShaderMembers, ub)
    IN [global_defines |-> [add |-> defines_to_add, omit |-> defines_to_omit],
        shader_ptr |-> found,
        fault |-> reload,
        rendering_dirty_ |-> IF reload = "none" THEN FALSE ELSE dirty,
        refreshes |-> 1]

\* a scene setup that refreshes whether or not the options are dirty
RefreshIfDirty_Always(options, loaded, dirty, defines, ptr, ub) ==
    RefreshGlobalShaderDefines(options, loaded, dirty, ub)

\* if (world->RenderingOptionsDirty()) RefreshGlobalShaderDefines(world);
RefreshIfDirty(options, loaded, dirty, defines, ptr, ub) ==
    IF dirty
    THEN RefreshGlobalShaderDefines(options, loaded, dirty, ub)
    ELSE [global_defines |-> defines, shader_ptr |-> ptr, fault |-> "none",
          rendering_dirty_ |-> dirty, refreshes |-> 0]

\* the main light: light_component->begin()->entity and its TransformData,
\* both used unchecked
LightPosition(lights, tr, ub) ==
    IF lights = <<>>
    THEN [position |-> Garbage,
          fault |-> IF ub = "fault" THEN "no_light" ELSE "none"]
    ELSE LET light_transform == TransformDataOf(tr, Head(lights))
         IN IF light_transform = NullData
            THEN [position |-> Garbage,
                  fault |-> IF ub = "fault" THEN "null_light_transform"
                            ELSE "none"]
            ELSE [position |-> light_transform, fault |-> "none"]

\* the main light's LightData in SetLightingUniforms, used unchecked
LightDataFault(lights, ub) ==
    IF lights = <<>> /\ ub = "fault" THEN "no_light" ELSE "none"

\* CreateShadowMap returning with the shadow map still the render target
CSM_Restore_Kept ==
    /\ fault = "none"
    /\ pc = "CSM_RenderPass"
    /\ pc' = "Idle"
    /\ UNCHANGED <<transform, fault, mvars, wvars, cvars,
                   rendering_option_enabled_, rendering_dirty_,
                   light_entities, loaded_shaders, global_defines, uniforms,
                   shader_ptr, light_position, shadow_map, render_target,
                   bound_texture, frame_state, call_refreshes,
                   pending_toggle>>

\* the render passes of CreateShadowMap with the draws going nowhere
DrawShadowCasters_Lost(target, content) == content

\* the render passes of CreateShadowMap: the depth draws land in the target
DrawShadowCasters(target, content) ==
    IF target = "shadow_map" THEN "written" ELSE content

WorldRenderer_Initialize(ub) ==
    /\ fault = "none"
    /\ pc = "Constructed"
    /\ LET r == RefreshGlobalShaderDefines(rendering_option_enabled_,
                                           loaded_shaders, rendering_dirty_,
                                           ub)
       IN /\ global_defines' = r.global_defines
          /\ shader_ptr' = r.shader_ptr
          /\ rendering_dirty_' = r.rendering_dirty_
          /\ fault' = r.fault
          /\ pc' = IF r.fault = "none" THEN "Idle" ELSE "Initialize"
    /\ shadow_map' = "stale"
    /\ UNCHANGED <<transform, mvars, wvars, cvars,
                   rendering_option_enabled_,
                   light_entities, loaded_shaders, uniforms, light_position,
                   render_target, bound_texture, frame_state, call_refreshes,
                   pending_toggle>>

\* World::SetRenderingOption, toggling option s
SetRenderingOption(s) ==
    /\ fault = "none"
    /\ pc = "Idle"
    /\ rendering_option_enabled_' =
           [rendering_option_enabled_ EXCEPT ![s] = ~@]
    /\ rendering_dirty_' = TRUE
    /\ pending_toggle' = TRUE
    /\ UNCHANGED <<transform, fault, mvars, wvars, cvars,
                   light_entities, loaded_shaders,
                   global_defines, uniforms, pc, shader_ptr, light_position,
                   shadow_map, render_target, bound_texture, frame_state,
                   call_refreshes>>

\* AssetManager::UnloadShader: the shader object is destroyed
UnloadShader(name) ==
    /\ fault = "none"
    /\ pc = "Idle"
    /\ name \in loaded_shaders
    /\ loaded_shaders' = loaded_shaders \ {name}
    /\ shader_ptr' =
           [m \in ShaderMembers |->
               IF ShaderNameOf[m] = name /\ shader_ptr[m] = "valid"
               THEN "dangling" ELSE shader_ptr[m]]
    /\ UNCHANGED <<transform, fault, mvars, wvars, cvars,
                   rendering_option_enabled_,
                   rendering_dirty_, light_entities, global_defines, uniforms,
                   pc, light_position, shadow_map, render_target,
                   bound_texture, frame_state, call_refreshes,
                   pending_toggle>>

\* RenderShadowMap, "Scene Setup": the refresh and the bias uniforms
RenderShadowMap(ub) ==
    /\ fault = "none"
    /\ pc = "Idle"
    /\ rendering_dirty_ => dirty_calls_total < MaxRenderCalls
    /\ LET r == RefreshIfDirty(rendering_option_enabled_, loaded_shaders,
                               rendering_dirty_, global_defines, shader_ptr,
                               ub)
           bias == ShaderUse(r.shader_ptr,
                             {"depth_shader_", "depth_skinned_shader_"}, ub)
       IN /\ global_defines' = r.global_defines
          /\ shader_ptr' = r.shader_ptr
          /\ rendering_dirty_' = r.rendering_dirty_
          /\ call_refreshes' = r.refreshes
          /\ refreshes_total' = refreshes_total + r.refreshes
          /\ fault' = IF r.fault # "none" THEN r.fault ELSE bias
    /\ dirty_calls_total' =
           dirty_calls_total + (IF rendering_dirty_ THEN 1 ELSE 0)
    /\ pc' = "RSM_Scene"
    /\ frame_state' = "ShadowPass"
    /\ UNCHANGED <<transform, mvars, wvars, rendering_option_enabled_,
                   light_entities, loaded_shaders, uniforms, light_position,
                   shadow_map, render_target, bound_texture, pending_toggle>>

\* CreateShadowMap, "Setup": the light camera, the render target, the clear
\* and the depth shaders
CSM_Setup(ub) ==
    /\ fault = "none"
    /\ pc = "RSM_Scene"
    /\ LET light == LightPosition(light_entities, transform, ub)
       IN IF light.fault # "none"
          THEN /\ fault' = light.fault
               /\ UNCHANGED <<light_position, render_target, shadow_map>>
          ELSE /\ light_position' = light.position
               /\ render_target' = "shadow_map"
               /\ shadow_map' = "cleared"
               /\ fault' = ShaderUse(shader_ptr,
                              {"depth_shader_", "depth_skinned_shader_"}, ub)
    /\ pc' = "CSM_Setup"
    /\ UNCHANGED <<transform, mvars, wvars, cvars,
                   rendering_option_enabled_,
                   rendering_dirty_, light_entities, loaded_shaders,
                   global_defines, uniforms, shader_ptr, bound_texture,
                   frame_state, call_refreshes, pending_toggle>>

\* CreateShadowMap, the loop over the render passes with ShaderIndex_Depth
CSM_RenderPass ==
    /\ fault = "none"
    /\ pc = "CSM_Setup"
    /\ shadow_map' = DrawShadowCasters(render_target, shadow_map)
    /\ pc' = "CSM_RenderPass"
    /\ UNCHANGED <<transform, fault, mvars, wvars, cvars,
                   rendering_option_enabled_,
                   rendering_dirty_, light_entities, loaded_shaders,
                   global_defines, uniforms, shader_ptr, light_position,
                   render_target, bound_texture, frame_state, call_refreshes,
                   pending_toggle>>

\* CreateShadowMap, the screen becomes the render target again; return
CSM_Restore ==
    /\ fault = "none"
    /\ pc = "CSM_RenderPass"
    /\ render_target' = "screen"
    /\ pc' = "Idle"
    /\ UNCHANGED <<transform, fault, mvars, wvars, cvars,
                   rendering_option_enabled_,
                   rendering_dirty_, light_entities, loaded_shaders,
                   global_defines, uniforms, shader_ptr, light_position,
                   shadow_map, bound_texture, frame_state, call_refreshes,
                   pending_toggle>>

\* RenderWorld, "Scene Setup" up to the refresh
RenderWorld(ub) ==
    /\ fault = "none"
    /\ pc = "Idle"
    /\ rendering_dirty_ => dirty_calls_total < MaxRenderCalls
    /\ LET r == RefreshIfDirty(rendering_option_enabled_, loaded_shaders,
                               rendering_dirty_, global_defines, shader_ptr,
                               ub)
       IN /\ global_defines' = r.global_defines
          /\ shader_ptr' = r.shader_ptr
          /\ rendering_dirty_' = r.rendering_dirty_
          /\ call_refreshes' = r.refreshes
          /\ refreshes_total' = refreshes_total + r.refreshes
          /\ fault' = r.fault
    /\ dirty_calls_total' =
           dirty_calls_total + (IF rendering_dirty_ THEN 1 ELSE 0)
    /\ pc' = "RW_Scene"
    /\ frame_state' = "MainPass"
    /\ pending_toggle' = FALSE
    /\ UNCHANGED <<transform, mvars, wvars, rendering_option_enabled_,
                   light_entities, loaded_shaders, uniforms, light_position,
                   shadow_map, render_target, bound_texture>>

\* the uniform groups with the fog group sent to every shader
GroupsFor_FogToAll(shader, options, with_lighting, with_fog) ==
    (IF /\ RenderingOptionEnabled(options, kShadowEffect)
        /\ shader \in ForEachShaderWithDefine(kDefinesText[kShadowEffect + 1])
     THEN {"shadow_projection"} ELSE {})
    \cup (IF shader \in ForEachShaderWithDefine("WATER")
          THEN {"river"} ELSE {})
    \cup (IF /\ with_lighting
             /\ shader \in
                  ForEachShaderWithDefine(kDefinesText[kPhongShading + 1])
          THEN {"lighting"} ELSE {})
    \cup (IF with_fog THEN {"fog"} ELSE {})

\* the uniform groups a shader receives from RenderWorld
GroupsFor(shader, options, with_lighting, with_fog) ==
    (IF /\ RenderingOptionEnabled(options, kShadowEffect)
        /\ shader \in ForEachShaderWithDefine(kDefinesText[kShadowEffect + 1])
     THEN {"shadow_projection"} ELSE {})
    \cup (IF shader \in ForEachShaderWithDefine("WATER")
          THEN {"river"} ELSE {})
    \cup (IF /\ with_lighting
             /\ shader \in
                  ForEachShaderWithDefine(kDefinesText[kPhongShading + 1])
          THEN {"lighting"} ELSE {})
    \cup (IF with_fog /\ shader \in ForEachShaderWithDefine("FOG_EFFECT")
          THEN {"fog"} ELSE {})

\* RenderWorld, the rest of "Scene Setup": the uniform groups in their order,
\* then the shadow map bound as a texture
RW_Uniforms(ub) ==
    /\ fault = "none"
    /\ pc = "RW_Scene"
    /\ LET lit == ForEachShaderWithDefine(kDefinesText[kPhongShading + 1])
           lighting == IF lit = {} THEN "none"
                       ELSE LightDataFault(light_entities, ub)
       IN /\ fault' = lighting
          /\ uniforms' =
                 [shader \in MaterialShaders |->
                     uniforms[shader] \cup
                         GroupsFor(shader, rendering_option_enabled_,
                                   lighting = "none", lighting = "none")]
          /\ bound_texture' = IF lighting = "none" THEN shadow_map
                              ELSE bound_texture
    /\ pc' = "RW_Uniforms"
    /\ UNCHANGED <<transform, mvars, wvars, cvars,
                   rendering_option_enabled_,
                   rendering_dirty_, light_entities, loaded_shaders,
                   global_defines, shader_ptr, light_position, shadow_map,
                   render_target, frame_state, call_refreshes,
                   pending_toggle>>

\* the loop over the render passes with the refresh done inside it
RW_RenderPass_Refreshing ==
    /\ fault = "none"
    /\ pc = "RW_Uniforms"
    /\ pc' = "RW_RenderPass"
    /\ LET r == RefreshGlobalShaderDefines(rendering_option_enabled_,
                                           loaded_shaders, rendering_dirty_,
                                           "continue")
       IN /\ global_defines' = r.global_defines
          /\ shader_ptr' = r.shader_ptr
          /\ rendering_dirty_' = r.rendering_dirty_
          /\ call_refreshes' = call_refreshes + r.refreshes
    /\ UNCHANGED <<transform, fault, mvars, wvars, cvars,
                   rendering_option_enabled_,
                   light_entities, loaded_shaders, uniforms, light_position,
                   shadow_map, render_target, bound_texture, frame_state,
                   pending_toggle>>

\* RenderWorld, the loop over the render passes
RW_RenderPass ==
    /\ fault = "none"
    /\ pc = "RW_Uniforms"
    /\ pc' = "RW_RenderPass"
    /\ UNCHANGED <<transform, fault, mvars, wvars, cvars,
                   rendering_option_enabled_,
                   rendering_dirty_, light_entities, loaded_shaders,
                   global_defines, uniforms, shader_ptr, light_position,
                   shadow_map, render_target, bound_texture, frame_state,
                   call_refreshes, pending_toggle>>

\* RenderWorld, debug physics and 3-D text; return.  The frame is over: what
\* the shadow map holds is from now on the content of an earlier frame.
RW_Finish ==
    /\ fault = "none"
    /\ pc = "RW_RenderPass"
    /\ pc' = "Idle"
    /\ frame_state' = "Idle"
    /\ shadow_map' = "stale"
    /\ UNCHANGED <<transform, fault, mvars, wvars, cvars,
                   rendering_option_enabled_,
                   rendering_dirty_, light_entities, loaded_shaders,
                   global_defines, uniforms, shader_ptr, light_position,
                   render_target, bound_texture, call_refreshes,
                   pending_toggle>>

\* ------------------------------------------------------------------------
\* Specification of the component
\* ------------------------------------------------------------------------
\* the Services component, the registry and the rail manager of a world in
\* which no entity was destroyed and no denizen is bound to a rail
WorldConstructed ==
    /\ services_data = {}
    /\ services_called = FALSE
    /\ raft_entity_ = 0
    /\ player_entity_ = 0
    /\ destroyed = {}
    /\ rail = NullData
    /\ rail_distance = 0
    /\ rail_position = NullData

Init ==
    /\ transform = [e \in Entities |-> NullData]
    /\ component_data_ = <<>>
    /\ export_buf = NoExport
    /\ export_src = NullData
    /\ ticks = 0
    /\ fault = "none"
    /\ rendering_option_enabled_ = [s \in ShaderDefines |-> TRUE]
    /\ rendering_dirty_ = FALSE
    /\ light_entities = <<>>
    /\ loaded_shaders = ShaderNames
    /\ Constructed
    /\ WorldConstructed

\* blobs the host can hand to AddFromRawData: authored definitions, a
\* definition of the wrong kind, and the last exported buffer
RawInputs ==
    ValidBlobs \cup {ForeignDef} \cup ({export_buf} \ {NullData, NoExport})

\* AddFromRawData of a definition of the right kind
AddValid ==
    \E entity \in Entities, raw_data \in RawInputs \ {ForeignDef} :
        AddFromRawData(entity, raw_data, "continue", kZeros3f)

\* AddFromRawData of a definition of another kind
AddForeign ==
    \E entity \in Entities, ub \in UBOutcomes, garbage \in Velocities :
        AddFromRawData(entity, ForeignDef, ub, garbage)

Update ==
    \E delta_time \in DeltaTimes, ub \in UBOutcomes :
        UpdateAllEntities(delta_time, ub)

Export == \E entity \in Entities : ExportRawData(entity)

Detach == \E entity \in Entities : RemoveTransform(entity)

Next == AddValid \/ AddForeign \/ Update \/ Export \/ Detach

\* the component driven by the entity registry
Spec == Init /\ [][Next]_vars

NextAdd == AddValid \/ AddForeign \/ Update \/ Export

\* the component on its own: entities are only ever built by AddFromRawData
SpecAdd == Init /\ [][NextAdd]_vars

\* ------------------------------------------------------------------------
\* Properties of the SimpleMovement component
\* ------------------------------------------------------------------------
\* exactly v * delta_time / 1000 on each axis, in thousandths of a unit
MovedBy(before, after, velocity, delta_time) ==
    /\ after # NullData
    /\ 1000 * (after.x - before.x) = velocity.x * delta_time
    /\ 1000 * (after.y - before.y) = velocity.y * delta_time
    /\ 1000 * (after.z - before.z) = velocity.z * delta_time

HasTransform(tr, entity) == tr[entity] # NullData

\* C3: one UpdateAllEntities(delta_time) call moves the Transform position of
\* every entity holding SimpleMovement data by exactly velocity *
\* delta_time / 1000 on each axis.
C3_UpdateMovesByVelocity ==
    [][\A delta_time \in DeltaTimes, ub \in UBOutcomes :
          UpdateAllEntities(delta_time, ub) =>
              \A i \in 1..Len(component_data_) :
                  LET entity == component_data_[i].entity
                  IN HasTransform(transform, entity) =>
                         MovedBy(transform[entity], transform'[entity],
                                 component_data_[i].velocity, delta_time)]_vars

\* C4: after any sequence of AddFromRawData calls every entity holding
\* SimpleMovement data also holds Transform data (AddFromRawData attaches
\* the Transform through InitEntity).
C4_MovementHasTransform ==
    \A entity \in SMEntities(component_data_) : HasTransform(transform, entity)

\* C4 witness: AddFromRawData built an entity and its Transform is attached
C4_Witness ==
    /\ Len(component_data_) = NumEntities
    /\ \A entity \in Entities : HasTransform(transform, entity)

\* C5: round trip.  Exporting an entity just built by AddFromRawData(B)
\* gives B back, and AddFromRawData of an exported buffer on a fresh entity
\* gives data equal to the exported entity's.
C5_RoundTrip ==
    [][/\ \A entity \in Entities, raw_data \in ValidBlobs :
             AddFromRawData(entity, raw_data, "continue", kZeros3f) =>
                 ExportRawDataResult(component_data_', entity) = raw_data
       /\ \A entity \in Entities \ SMEntities(component_data_) :
             (/\ export_buf \notin {NullData, NoExport}
              /\ AddFromRawData(entity, export_buf, "continue", kZeros3f))
                 => GetComponentData(component_data_', entity) = export_src
      ]_vars

\* C5 witness: an entity was exported and a second entity holds equal data
C5_Witness ==
    /\ export_buf = SimpleMovementDef(Vec3(-1000, 2000, 3000))
    /\ Cardinality({entity \in Entities :
           GetComponentData(component_data_, entity) = export_src}) >= 2

\* C6: AddFromRawData of a definition whose type tag is not the component's
\* is rejected: the entity is left without a SimpleMovement record and the
\* simulation continues.
C6_ForeignDefRejected ==
    [][\A entity \in Entities \ SMEntities(component_data_),
          ub \in UBOutcomes, garbage \in Velocities :
          AddFromRawData(entity, ForeignDef, ub, garbage) =>
              /\ entity \notin SMEntities(component_data_')
              /\ fault' = "none"]_vars

\* C7: UpdateAllEntities skips an entity whose Transform is absent without
\* a fault, and still updates every other entity of the pass.
C7_MissingTransformSkipped ==
    [][\A delta_time \in DeltaTimes, ub \in UBOutcomes :
          (/\ UpdateAllEntities(delta_time, ub)
           /\ \E entity \in SMEntities(component_data_) :
                  ~HasTransform(transform, entity))
          => /\ fault' = "none"
             /\ \A i \in 1..Len(component_data_) :
                   LET entity == component_data_[i].entity
                   IN IF HasTransform(transform, entity)
                      THEN MovedBy(transform[entity], transform'[entity],
                                   component_data_[i].velocity, delta_time)
                      ELSE ~HasTransform(transform', entity)]_vars

\* ------------------------------------------------------------------------
\* Specifications of the renderer
\* ------------------------------------------------------------------------
\* where a level puts its light
LightAt == Vec3(0, 0, 10000)

\* the world a level load leaves behind: one light entity whose Transform
\* is at position, or has been removed (NullData)
LitWorld(light, position) ==
    /\ light_entities = <<light>>
    /\ transform = [e \in Entities |->
                       IF e = light THEN position ELSE NullData]

\* a level without any light
DarkWorld ==
    /\ light_entities = <<>>
    /\ transform = [e \in Entities |-> NullData]

InitRender ==
    /\ component_data_ = <<>>
    /\ export_buf = NoExport
    /\ export_src = NullData
    /\ ticks = 0
    /\ fault = "none"
    /\ \/ \E light \in Entities : LitWorld(light, LightAt)
       \/ \E light \in Entities : LitWorld(light, NullData)
       \/ DarkWorld
    /\ rendering_option_enabled_ = [s \in ShaderDefines |-> TRUE]
    /\ rendering_dirty_ \in BOOLEAN
    /\ loaded_shaders = ShaderNames
    /\ Constructed
    /\ WorldConstructed

Initialize == \E ub \in UBOutcomes : WorldRenderer_Initialize(ub)

Toggle == \E s \in ToggleInputs : SetRenderingOption(s)

Unload == \E name \in ShaderNames : UnloadShader(name)

ShadowPass == \E ub \in UBOutcomes : RenderShadowMap(ub)

ShadowSetup == \E ub \in UBOutcomes : CSM_Setup(ub)

MainPass == \E ub \in UBOutcomes : RenderWorld(ub)

MainUniforms == \E ub \in UBOutcomes : RW_Uniforms(ub)

\* the host calls the two entry points of the renderer and toggles options
\* between the calls as it likes
NextRender ==
    \/ Initialize
    \/ Toggle
    \/ Unload
    \/ ShadowPass
    \/ ShadowSetup
    \/ CSM_RenderPass
    \/ CSM_Restore
    \/ MainPass
    \/ MainUniforms
    \/ RW_RenderPass
    \/ RW_Finish

SpecRender == InitRender /\ [][NextRender]_vars

\* GameState::Render: one frame is the shadow pass, then the main pass;
\* options change between frames
FrameToggle == frame_state = "Idle" /\ Toggle

FrameUnload == frame_state = "Idle" /\ Unload

FrameShadowPass == frame_state = "Idle" /\ ShadowPass

FrameMainPass == frame_state = "ShadowPass" /\ MainPass

NextFrame ==
    \/ Initialize
    \/ FrameToggle
    \/ FrameUnload
    \/ FrameShadowPass
    \/ ShadowSetup
    \/ CSM_RenderPass
    \/ CSM_Restore
    \/ FrameMainPass
    \/ MainUniforms
    \/ RW_RenderPass
    \/ RW_Finish

SpecFrame == InitRender /\ [][NextFrame]_vars

\* ------------------------------------------------------------------------
\* Properties of the renderer
\* ------------------------------------------------------------------------
\* a step that enters RenderShadowMap or RenderWorld
RenderCall == pc = "Idle" /\ pc' \in {"RSM_Scene", "RW_Scene"}

\* a step in which RefreshGlobalShaderDefines ran
Refreshed ==
    \/ rendering_dirty_ /\ ~rendering_dirty_'
    \/ global_defines' # global_defines
    \/ pc = "Constructed" /\ pc' # pc
    \/ RenderCall /\ call_refreshes' = 1
    \/ ~RenderCall /\ call_refreshes' # call_refreshes

\* C1 as stated: a toggle sets the dirty flag, the next RenderWorld call
\* does exactly one refresh and leaves the flag clear, and a render call
\* with no toggle before it does none.
C1_NextRenderWorldRefreshes ==
    [][/\ (rendering_option_enabled_' # rendering_option_enabled_
              => rendering_dirty_')
       /\ (pc = "Idle" /\ pc' = "RW_Scene" /\ pending_toggle
              => /\ call_refreshes' = 1
                 /\ (fault' = "none" => ~rendering_dirty_'))
       /\ (RenderCall /\ ~rendering_dirty_ => call_refreshes' = 0)]_vars

\* C1 amended: a toggle sets the dirty flag; a render call, RenderShadowMap
\* or RenderWorld, does exactly one refresh when it begins with the flag set
\* and none otherwise, and the flag is clear whenever a render call goes on
\* or returns.
C1_NextRenderCallRefreshes ==
    [][/\ (rendering_option_enabled_' # rendering_option_enabled_
              => rendering_dirty_')
       /\ (RenderCall
              => call_refreshes' = IF rendering_dirty_ THEN 1 ELSE 0)
       /\ (pc \notin {"Constructed", "Idle"} /\ pc' # pc
              => ~rendering_dirty_')]_vars

\* C1 witness: after a toggle the shadow pass came first, did the one
\* refresh and cleared the flag
C1_Witness ==
    /\ pc = "RSM_Scene"
    /\ pending_toggle
    /\ call_refreshes = 1
    /\ ~rendering_dirty_
    /\ fault = "none"

FrameOrder ==
    {<<"Idle", "ShadowPass">>, <<"ShadowPass", "MainPass">>,
     <<"MainPass", "Idle">>}

C8_MissingShaderSkipped ==
    pc \notin {"Constructed", "Initialize"} => fault # "null_shader"

\* C9: after Initialize, RenderShadowMap and RenderWorld never fault on the
\* light lookup, whether or not the world has a light with a Transform.
C9_LightLookupSafe ==
    fault \notin {"no_light", "null_light_transform"}

\* C10 as stated: shader defines are refreshed at frame boundaries only,
\* that is by the pass that opens a frame, never once a pass of the frame
\* has run.
C10_RefreshAtFrameBoundary ==
    [][Refreshed /\ pc # "Constructed"
          => frame_state = "Idle" \/ pc' = "RSM_Scene"]_vars

\* C10 amended: shader defines are refreshed only by Initialize and by the
\* scene setup that opens a render pass, before that pass draws anything.
C10_RefreshAtPassStart ==
    [][Refreshed => pc \in {"Constructed", "Idle"}]_vars

\* C10 witness: the flag was set between the shadow pass and the main pass,
\* and the main pass refreshed in its scene setup
C10_Witness ==
    /\ pc = "RW_Scene"
    /\ call_refreshes = 1
    /\ shadow_map = "written"
    /\ fault = "none"

\* the feature define a shader has to declare to receive a uniform group
GroupDefine ==
    [shadow_projection |-> "SHADOW_EFFECT", river |-> "WATER",
     lighting |-> "PHONG_SHADING", fog |-> "FOG_EFFECT"]

\* C11: the main pass writes a uniform group only to the shaders that
\* declare the matching define; a shader that does not declare the define
\* keeps its uniforms of that group unchanged.
C11_UniformGroupsByDefine ==
    [][\A shader \in MaterialShaders :
          \A group \in uniforms'[shader] \ uniforms[shader] :
              /\ pc' = "RW_Uniforms"
              /\ GroupDefine[group] \in ShaderDefinesOf(shader)]_vars

\* C11 witness: the main pass has broadcast every group; the shader without
\* defines received nothing and the water shader no lighting
C11_Witness ==
    /\ pc = "RW_Uniforms"
    /\ fault = "none"
    /\ uniforms["lit"] = {"shadow_projection", "lighting", "fog"}
    /\ uniforms["water"] = {"river", "fog"}
    /\ uniforms["plain"] = {}

\* C12: every return from the shadow pass leaves the screen as the render
\* target, and every depth draw of the shadow pass goes to the shadow map,
\* cleared before the first draw.
C12_ShadowTargetBracket ==
    [][/\ (pc = "CSM_RenderPass" /\ pc' = "Idle" => render_target' = "screen")
       /\ (pc' = "CSM_RenderPass" /\ pc # pc'
              => /\ render_target = "shadow_map"
                 /\ render_target' = "shadow_map"
                 /\ shadow_map = "cleared")
       /\ (pc' \in {"Idle", "RW_Scene", "RW_Uniforms", "RW_RenderPass"}
              => render_target' = "screen")]_vars

\* C12 witness: the shadow pass has returned, the shadow map is written and
\* the screen is the render target again
C12_Witness ==
    /\ pc = "Idle"
    /\ frame_state = "ShadowPass"
    /\ shadow_map = "written"
    /\ render_target = "screen"
    /\ fault = "none"

\* C13: ExportRawData(entity) returns null when the entity holds no
\* SimpleMovement record and the serialized velocity of its record
\* otherwise; an export changes neither the component's records nor any
\* Transform.
C13_ExportNullOrDef ==
    [][/\ \A entity \in Entities :
             ExportRawData(entity) =>
                 export_buf' =
                     IF \E i \in 1..Len(component_data_) :
                            component_data_[i].entity = entity
                     THEN [tag |-> "SimpleMovementDef",
                           velocity |->
                               component_data_[
                                   IndexOf(component_data_, entity)].velocity]
                     ELSE NullData
       /\ (export_buf' # export_buf
              => /\ component_data_' = component_data_
                 /\ transform' = transform
                 /\ fault' = fault)]_vars

\* C13 witness: an entity without a record was exported while another
\* entity holds one
C13_Witness ==
    /\ export_buf = NullData
    /\ Len(component_data_) = 1
    /\ fault = "none"

\* ------------------------------------------------------------------------
\* Specification of the world: entity factory, registry and renderer
\* ------------------------------------------------------------------------
\* a loaded level: entity 1 is the light and has a Transform
InitWorld ==
    /\ component_data_ = <<>>
    /\ export_buf = NoExport
    /\ export_src = NullData
    /\ ticks = 0
    /\ fault = "none"
    /\ LitWorld(1, LightAt)
    /\ rendering_option_enabled_ = [s \in ShaderDefines |-> TRUE]
    /\ rendering_dirty_ = FALSE
    /\ loaded_shaders = ShaderNames
    /\ Constructed
    /\ WorldConstructed

\* the entity factory builds SimpleMovement data on a live entity
WorldAdd ==
    \E entity \in Entities \ destroyed, raw_data \in ValidBlobs :
        AddFromRawData(entity, raw_data, "continue", kZeros3f)

\* the entity factory finds a Services definition in an entity
ServicesAdd ==
    \E entity \in Entities \ destroyed, ndebug \in BOOLEAN :
        ServicesAddFromRawData(entity, ndebug)

SetRaft == \E entity \in Entities \ destroyed : set_raft_entity(entity)

SetPlayer == \E entity \in Entities \ destroyed : set_player_entity(entity)

Destroy == \E entity \in Entities : DestroyEntity(entity)

NextWorld ==
    \/ Initialize
    \/ WorldAdd
    \/ ServicesAdd
    \/ SetRaft
    \/ SetPlayer
    \/ Destroy
    \/ ShadowPass
    \/ ShadowSetup
    \/ CSM_RenderPass
    \/ CSM_Restore
    \/ MainPass
    \/ MainUniforms
    \/ RW_RenderPass
    \/ RW_Finish

SpecWorld == InitWorld /\ [][NextWorld]_vars

LookupFaults == {"no_light", "null_light_transform", "null_transform"}

\* C15: once a handle is destroyed every component's lookup for it gives
\* null, for the handles kept in raft_entity_ and player_entity_ too, and
\* no operation that looks up the data of a destroyed entity, the light
\* lookup of the renderer included, ends in a fault.
C15_StaleHandleSafe ==
    \A entity \in destroyed :
        /\ TransformDataOf(transform, entity) = NullData
        /\ GetComponentData(component_data_, entity) = NullData
        /\ \A i \in 1..Len(light_entities) : light_entities[i] # entity
        /\ entity \notin services_data
        /\ fault \notin LookupFaults

\* ------------------------------------------------------------------------
\* Specification of a rail denizen
\* ------------------------------------------------------------------------
\* a denizen bound to one of the loaded rails, at distance 0
InitRail ==
    /\ transform = [e \in Entities |-> NullData]
    /\ component_data_ = <<>>
    /\ export_buf = NoExport
    /\ export_src = NullData
    /\ ticks = 0
    /\ rendering_option_enabled_ = [s \in ShaderDefines |-> TRUE]
    /\ rendering_dirty_ = FALSE
    /\ light_entities = <<>>
    /\ loaded_shaders = ShaderNames
    /\ Constructed
    /\ services_data = {}
    /\ services_called = FALSE
    /\ raft_entity_ = 0
    /\ player_entity_ = 0
    /\ destroyed = {}
    /\ rail \in RailDefs
    /\ rail_distance = 0
    /\ rail_position = RailPositionAt(rail, 0).position
    /\ fault = RailPositionAt(rail, 0).fault

RailUpdate ==
    \E speed \in RailSpeeds, delta_time \in DeltaTimes :
        UpdateRailDenizen(speed, delta_time)

NextRail == RailUpdate

SpecRail == InitRail /\ [][NextRail]_vars

\* ------------------------------------------------------------------------
\* Properties of the rails
\* ------------------------------------------------------------------------
\* the rail (0,0,0) -> (10,0,0) that does not wrap
StraightRail ==
    [positions |-> <<Vec3(0, 0, 0), Vec3(10000, 0, 0)>>,
     total_time |-> 10000, reliable_distance |-> 0, wraps |-> FALSE]

\* C16: on a rail that does not wrap the position at a distance is the
\* position at the distance clamped to [0, total_length]; on the rail
\* (0,0,0) -> (10,0,0) distance 5 gives (5,0,0), distance 15 gives (10,0,0)
\* and distance -1 gives what distance 0 gives.
C16_NonWrappingClamps ==
    (rail # NullData /\ ~rail.wraps) =>
        LET total_length == TotalLength(rail.positions)
            clamped == IF rail_distance < 0 THEN 0
                       ELSE IF rail_distance > total_length
                            THEN total_length
                            ELSE rail_distance
        IN /\ rail_position = RailPositionAt(rail, clamped).position
           /\ rail = StraightRail =>
                  /\ rail_position = Vec3(clamped, 0, 0)
                  /\ rail_distance = 5000 => rail_position = Vec3(5000, 0, 0)
                  /\ rail_distance = 15000 =>
                         rail_position = Vec3(10000, 0, 0)
                  /\ rail_distance = -1000 => rail_position = Vec3(0, 0, 0)

\* C16 witness: the denizen is 15 units along the rail (0,0,0) -> (10,0,0)
\* and stands at its end
C16_Witness ==
    /\ rail = StraightRail
    /\ rail_distance = 15000
    /\ rail_position = Vec3(10000, 0, 0)

\* C17: a rail with a single waypoint gives that waypoint for every
\* distance, wrapping or not, and its evaluation never takes a quotient or
\* remainder by zero.
C17_SingleWaypointFixed ==
    (rail # NullData /\ Len(rail.positions) = 1) =>
        /\ rail_position = rail.positions[1]
        /\ fault # "division_by_zero"

\* C17 witness: a wrapping rail of one waypoint, the denizen moved away from
\* distance 0 and still stands on the waypoint
C17_Witness ==
    /\ rail # NullData
    /\ Len(rail.positions) = 1
    /\ rail.wraps
    /\ rail_distance = -2000
    /\ rail_position = rail.positions[1]
    /\ fault = "none"

\* ------------------------------------------------------------------------
\* Further properties of the SimpleMovement component
\* ------------------------------------------------------------------------
\* the orders in which n records can be visited
Orders(n) ==
    {order \in [1..n -> 1..n] :
        \A i, j \in 1..n : order[i] = order[j] => i = j}

Reordered(cd, order) == [i \in 1..Len(cd) |-> cd[order[i]]]

\* C18: UpdateAllEntities gives the same Transform positions whatever the
\* order in which it visits the records of the component.
C18_OrderIndependent ==
    [][\A delta_time \in DeltaTimes, ub \in UBOutcomes :
          UpdateAllEntities(delta_time, ub) =>
              \A order \in Orders(Len(component_data_)) :
                  UpdateFrom(Reordered(component_data_, order), 1, transform,
                             delta_time, ub).transform = transform']_vars

\* ------------------------------------------------------------------------
\* Further properties of the renderer
\* ------------------------------------------------------------------------
\* C19: Initialize, RenderShadowMap and RenderWorld all return with the
\* rendering-dirty flag clear, and the refreshes done by render calls are as
\* many as the render calls that began with the flag set.
C19_RenderCallsConsumeFlag ==
    [][/\ (pc # "Idle" /\ pc' = "Idle" /\ fault' = "none"
              => ~rendering_dirty_')
       /\ refreshes_total' = dirty_calls_total'
       /\ (RenderCall
              => refreshes_total' - refreshes_total =
                     IF rendering_dirty_ THEN 1 ELSE 0)]_vars

\* C19 witness: one render call began with the flag set; the shadow pass of
\* this frame has run and the main pass that follows it did no refresh
C19_Witness ==
    /\ pc = "RW_Scene"
    /\ shadow_map = "written"
    /\ dirty_calls_total = 1
    /\ refreshes_total = 1
    /\ call_refreshes = 0
    /\ ~rendering_dirty_
    /\ fault = "none"

\* C20: every refresh hands the asset manager an empty set of defines to
\* add and, as the set to omit, exactly the defines of the options that are
\* disabled.
C20_OmitIsDisabledOptions ==
    [][Refreshed =>
          /\ global_defines'.add = {}
          /\ global_defines'.omit \subseteq
                 {"PHONG_SHADING", "SPECULAR_EFFECT", "SHADOW_EFFECT",
                  "NORMALS"}
          /\ \A s \in ShaderDefines :
                 kDefinesText[s + 1] \in global_defines'.omit
                     <=> ~rendering_option_enabled_'[s]]_vars

\* C20 witness: the shadow effect was switched off and a refresh has put
\* its define, and no other, into the set to omit
C20_Witness ==
    /\ pc \notin {"Constructed", "Initialize"}
    /\ ~rendering_option_enabled_[kShadowEffect]
    /\ rendering_option_enabled_[kPhongShading]
    /\ ~rendering_dirty_
    /\ global_defines = [add |-> {}, omit |-> {"SHADOW_EFFECT"}]
    /\ fault = "none"
\* ------------------------------------------------------------------------
\* Specification of the movement pass among other entities
\* ------------------------------------------------------------------------
\* velocities of authored definitions, the resting one included
MoveVelocities == Velocities \cup {kZeros3f}

\* EntityManager::AddEntityToComponent<TransformComponent>(entity) called by
\* the entity factory for an entity that has no Transform yet
AttachTransform(entity) ==
    /\ fault = "none"
    /\ transform[entity] = NullData
    /\ transform' = AddEntityToTransform(transform, entity)
    /\ UNCHANGED <<component_data_, export_buf, export_src, ticks, fault,
                   rvars, wvars>>

\* AddFromRawData of an authored definition
MoveAdd ==
    \E entity \in Entities, velocity \in MoveVelocities :
        AddFromRawData(entity, SimpleMovementDef(velocity), "continue",
                       kZeros3f)

MoveAttach == \E entity \in Entities : AttachTransform(entity)

NextMove == MoveAdd \/ MoveAttach \/ Update \/ Detach

\* entities with and without SimpleMovement data, with and without a
\* Transform, and the movement pass over them
SpecMove == Init /\ [][NextMove]_vars

\* C21: UpdateAllEntities changes nothing but the Transform positions of
\* entities that hold SimpleMovement data: the velocities and the set of
\* entities of the component stay as they were, no Transform is attached or
\* removed, the Transform of an entity without SimpleMovement data keeps its
\* position, and so does every Transform when delta_time is 0 and the
\* Transform of an entity whose velocity is (0, 0, 0).
C21_UpdateFrameEffect ==
    [][\A delta_time \in DeltaTimes, ub \in UBOutcomes :
          UpdateAllEntities(delta_time, ub) =>
              /\ SMEntities(component_data_') = SMEntities(component_data_)
              /\ Len(component_data_') = Len(component_data_)
              /\ \A i \in 1..Len(component_data_) :
                     component_data_'[i] = component_data_[i]
              /\ UNCHANGED <<export_buf, export_src, rvars, wvars>>
              /\ \A entity \in Entities :
                     LET data == GetComponentData(component_data_, entity)
                     IN /\ (transform'[entity] = NullData)
                               <=> (transform[entity] = NullData)
                        /\ data = NullData
                               => transform'[entity] = transform[entity]
                        /\ delta_time = 0
                               => transform'[entity] = transform[entity]
                        /\ (data # NullData /\ data.velocity = kZeros3f)
                               => transform'[entity] = transform[entity]
      ]_vars

\* after an update of one second one entity has moved by its velocity while
\* an entity without SimpleMovement data still has its Transform at the origin
C21_Witness ==
    /\ ticks = 1
    /\ fault = "none"
    /\ \E a, b \in Entities :
          /\ a # b
          /\ component_data_ = <<[entity |-> a, velocity |-> Vec3(1000, 0, 0)]>>
          /\ transform[a] = Vec3(1000, 0, 0)
          /\ transform[b] = kZeros3f

====
